---- MODULE Spec2Model ----
(***************************************************************************)
(* Model of the data-fetching layer of the employee directory              *)
(* (src/services/services.ts): the client/server pagination arithmetic of  *)
(* useEmployees, the prefetch list of usePrefetchEmployees, and the query  *)
(* cache the hooks and the create/update/delete mutations drive.           *)
(*                                                                         *)
(* Two specifications:                                                     *)
(*   SpecPaging  the hooks as functions of (page, pageSize, total)         *)
(*   Spec        the query cache: requests, prefetches, responses, clock,  *)
(*               mutations and their invalidation                          *)
(***************************************************************************)
EXTENDS Integers, Sequences, FiniteSets, TLC

VARIABLES
    \* ---- paging (SpecPaging) ----
    serverPageSize,     \* SERVER_PAGE_SIZE, read once at module load
    totalEmployees,     \* length of the sorted/filtered list on the server
    hook,               \* the hook that ran: "none", "useEmployees", "usePrefetchEmployees"
    pageOnClient,       \* pageOnClient / currentPage argument of the hook
    pageSizeOnClient,   \* pageSizeOnClient / pageSize argument of the hook
    pageOnServer,       \* useEmployees: the server page it asks for
    dataPaginated,      \* useEmployees: the data it returns (Undefined until fetched)
    pagesToPrefetch,    \* usePrefetchEmployees: the list of client pages
    \* ---- the GET URL (SpecUrl) ----
    queryFnOf,          \* the hook whose queryFn ran: "none", "useEmployees", "usePrefetchEmployees"
    quickFilterValues,  \* queryOptions.filterModel.quickFilterValues
    filterSegment,      \* the filters segment of the URL fetchEmployees asks for
    \* ---- query cache (Spec) ----
    now,                \* Date.now(), in milliseconds
    q,                  \* the query cache: key -> state of the query
    orphans,            \* key -> GETs still in flight whose query awaits them no more
    obs,                \* hook instance -> the key its useEmployees observes
    serverVersion,      \* number of mutations the server has applied
    mut,                \* mutation -> state of the create/update/delete call
    last                \* the last operation and what it found and sent

pagingVars == <<serverPageSize, totalEmployees, hook, pageOnClient,
                pageSizeOnClient, pageOnServer, dataPaginated, pagesToPrefetch>>

urlVars == <<queryFnOf, quickFilterValues, filterSegment>>

(***************************************************************************)
(* Bounds                                                                  *)
(***************************************************************************)
MaxServerPageSize == 25
MaxTotalEmployees == 30
MaxPage == 6
MaxKey == 1             \* server pages 0..MaxKey are requested
NumHooks == 1           \* mounted instances of useEmployees
MaxMutations == 1       \* create/update/delete submissions
MaxOrphans == 1         \* superseded GETs in flight per key
MaxPrefetch == 2        \* pages one prefetch effect walks through
TickMs == 2000          \* the clock advances in steps of TickMs
MaxTime == 6000         \* ... up to MaxTime
MaxTokens == 2          \* quick-filter values typed into the toolbar
MaxTokenLen == 2        \* characters of one quick-filter value

\* query.data: undefined until the server page has arrived, then its employees
Undefined == [defined |-> FALSE, employees |-> <<>>]
Data(employees) == [defined |-> TRUE, employees |-> employees]

\* The rows-per-page choices of the grid's Select
GridPageSizes == {10, 25, 50, 100}

\* page sizes the hooks are run with: every size up to the largest server
\* page size, and the sizes the grid offers
PageSizes == (1..MaxServerPageSize) \cup GridPageSizes

Range(seq) == {seq[n] : n \in 1..Len(seq)}

Min(a, b) == IF a < b THEN a ELSE b
Max(a, b) == IF a > b THEN a ELSE b

(***************************************************************************)
(* The server side: the full list and its fixed-size pages                 *)
(***************************************************************************)
\* the sorted/filtered list: employees are identified by their rank in it
FullList(total) == [n \in 1..total |-> n]

\* GET /employees/page/{page}/...: records page*S .. page*S+S-1 (0-based)
ServerPage(page, S, total) ==
    SubSeq(FullList(total), page * S + 1, Min((page + 1) * S, total))

(***************************************************************************)
(* useEmployees                                                            *)
(***************************************************************************)
\* Array.prototype.slice(start, end) for 0 <= start, 0 <= end
Slice(arr, start, end) ==
    SubSeq(arr, Min(start, Len(arr)) + 1, Min(end, Len(arr)))

\* Math.round for Math.floor
PageOnServerRounded(page, pageSize, S) == (2 * page * pageSize + S) \div (2 * S)

\* Math.floor((pageOnClient * pageSizeOnClient) / SERVER_PAGE_SIZE)
PageOnServer(page, pageSize, S) == (page * pageSize) \div S

SliceStart(page, pageSize, S) == (page * pageSize) % S

\* the end offset without the "|| SERVER_PAGE_SIZE" fallback
SliceEndNoFallback(page, pageSize, S) == ((page + 1) * pageSize) % S

\* the end offset with "|| pageSizeOnClient" for "|| SERVER_PAGE_SIZE"
SliceEndPageSizeFallback(page, pageSize, S) ==
    IF ((page + 1) * pageSize) % S = 0 THEN pageSize
    ELSE ((page + 1) * pageSize) % S

\* x % S || S : a zero remainder is falsy and gives S
SliceEnd(page, pageSize, S) ==
    IF ((page + 1) * pageSize) % S = 0 THEN S ELSE ((page + 1) * pageSize) % S

\* query.data?.employees?.slice(start, end), query.data being the fetched
\* server page or undefined
EmployeesSlice(data, page, pageSize, S) ==
    IF data = Undefined
    THEN Undefined
    ELSE Data(Slice(data.employees, SliceStart(page, pageSize, S),
                    SliceEnd(page, pageSize, S)))

UseEmployees(page, pageSize, fetched) ==
    /\ hook = "none"
    /\ hook' = "useEmployees"
    /\ pageOnClient' = page
    /\ pageSizeOnClient' = pageSize
    /\ pageOnServer' = PageOnServer(page, pageSize, serverPageSize)
    /\ dataPaginated' =
         EmployeesSlice(
            IF fetched
            THEN Data(ServerPage(PageOnServer(page, pageSize, serverPageSize),
                                 serverPageSize, totalEmployees))
            ELSE Undefined,
            page, pageSize, serverPageSize)
    /\ pagesToPrefetch' = <<>>
    /\ UNCHANGED <<serverPageSize, totalEmployees>>

(***************************************************************************)
(* usePrefetchEmployees: the list of client pages                          *)
(***************************************************************************)
\* Math.ceil(totalEmployees / pageSize) - 1
LastPage(total, pageSize) == ((total + pageSize - 1) \div pageSize) - 1

\* the near-start loop with "i < lastPage" for "i <= lastPage"
RECURSIVE NearStartLoopStrict(_, _, _, _)
NearStartLoopStrict(i, currentPage, lastPage, acc) ==
    IF i > 4 THEN acc
    ELSE NearStartLoopStrict(i + 1, currentPage, lastPage,
                             IF i # currentPage /\ i < lastPage
                             THEN Append(acc, i) ELSE acc)

\* for (i = from; i <= 4; i += 1) if (i !== currentPage && i <= lastPage) push(i)
RECURSIVE NearStartLoop(_, _, _, _)
NearStartLoop(i, currentPage, lastPage, acc) ==
    IF i > 4 THEN acc
    ELSE NearStartLoop(i + 1, currentPage, lastPage,
                       IF i # currentPage /\ i <= lastPage
                       THEN Append(acc, i) ELSE acc)

\* the near-end loop with "i > lastPage - 4" for "i >= lastPage - 4"
RECURSIVE NearEndLoopStrict(_, _, _, _)
NearEndLoopStrict(i, currentPage, lastPage, acc) ==
    IF i <= lastPage - 4 THEN acc
    ELSE NearEndLoopStrict(i - 1, currentPage, lastPage,
                           IF i # currentPage /\ i >= 0
                           THEN Append(acc, i) ELSE acc)

\* the near-end loop without the test "i >= 0"
RECURSIVE NearEndLoopNoFloor(_, _, _, _)
NearEndLoopNoFloor(i, currentPage, lastPage, acc) ==
    IF i < lastPage - 4 THEN acc
    ELSE NearEndLoopNoFloor(i - 1, currentPage, lastPage,
                            IF i # currentPage
                            THEN Append(acc, i) ELSE acc)

\* for (i = from; i >= lastPage - 4; i -= 1) if (i !== currentPage && i >= 0) push(i)
RECURSIVE NearEndLoop(_, _, _, _)
NearEndLoop(i, currentPage, lastPage, acc) ==
    IF i < lastPage - 4 THEN acc
    ELSE NearEndLoop(i - 1, currentPage, lastPage,
                     IF i # currentPage /\ i >= 0
                     THEN Append(acc, i) ELSE acc)

\* the three branches with the push of page 0 missing from the middle one
PagesToPrefetchNoFirstPage(currentPage, lastPage) ==
    IF currentPage <= 3
    THEN LET loop == NearStartLoop(0, currentPage, lastPage, <<>>)
         IN  IF lastPage > 4 THEN Append(loop, lastPage) ELSE loop
    ELSE IF currentPage >= lastPage - 3
    THEN LET loop == NearEndLoop(lastPage, currentPage, lastPage, <<>>)
         IN  IF lastPage - 4 > 0 THEN Append(loop, 0) ELSE loop
    ELSE <<currentPage - 1, currentPage + 1, lastPage>>

\* if (currentPage <= 3) ... else if (currentPage >= lastPage - 3) ... else ...
PagesToPrefetch(currentPage, lastPage) ==
    IF currentPage <= 3
    THEN LET loop == NearStartLoop(0, currentPage, lastPage, <<>>)
         IN  IF lastPage > 4 THEN Append(loop, lastPage) ELSE loop
    ELSE IF currentPage >= lastPage - 3
    THEN LET loop == NearEndLoop(lastPage, currentPage, lastPage, <<>>)
         IN  IF lastPage - 4 > 0 THEN Append(loop, 0) ELSE loop
    ELSE <<currentPage - 1, currentPage + 1, 0, lastPage>>

UsePrefetchEmployees(currentPage, pageSize) ==
    /\ hook = "none"
    /\ hook' = "usePrefetchEmployees"
    /\ pageOnClient' = currentPage
    /\ pageSizeOnClient' = pageSize
    /\ pagesToPrefetch' =
         PagesToPrefetch(currentPage, LastPage(totalEmployees, pageSize))
    /\ pageOnServer' = 0
    /\ dataPaginated' = Undefined
    /\ UNCHANGED <<serverPageSize, totalEmployees>>

(***************************************************************************)
(* The filters segment of GET /employees/page/../sort/../../filters/..     *)
(***************************************************************************)
\* a string is the sequence of its characters
Chars == {"a", "/", "-"}

NoFilter == <<"n", "o", "F", "i", "l", "t", "e", "r">>

\* an optional string: undefined, or its characters
UndefinedString == [defined |-> FALSE, chars |-> <<>>]
String(chars) == [defined |-> TRUE, chars |-> chars]

\* quickFilterValues: undefined, or the values of the toolbar's quick filter
UndefinedValues == [defined |-> FALSE, tokens |-> <<>>]
Values(tokens) == [defined |-> TRUE, tokens |-> tokens]

RECURSIVE SeqsUpTo(_, _)
SeqsUpTo(S, n) ==
    IF n = 0 THEN {<<>>}
    ELSE SeqsUpTo(S, n - 1)
           \cup {Append(x, e) : x \in {y \in SeqsUpTo(S, n - 1) : Len(y) = n - 1},
                                e \in S}

\* the values <GridToolbarQuickFilter /> yields: the words typed, none empty
Tokens == SeqsUpTo(Chars, MaxTokenLen) \ {<<>>}

QuickFilterValues ==
    {UndefinedValues} \cup {Values(t) : t \in SeqsUpTo(Tokens, MaxTokens)}

\* Array.prototype.join(sep)
RECURSIVE JoinWith(_, _)
JoinWith(parts, sep) ==
    IF parts = <<>> THEN <<>>
    ELSE IF Len(parts) = 1 THEN parts[1]
    ELSE parts[1] \o sep \o JoinWith(Tail(parts), sep)

\* String.prototype.split(ch): the pieces between the occurrences of ch
RECURSIVE SplitOn(_, _, _, _)
SplitOn(str, ch, piece, acc) ==
    IF str = <<>> THEN Append(acc, piece)
    ELSE IF Head(str) = ch
    THEN SplitOn(Tail(str), ch, <<>>, Append(acc, piece))
    ELSE SplitOn(Tail(str), ch, Append(piece, Head(str)), acc)

\* String.prototype.replace('/', '-'): the first occurrence only
RECURSIVE ReplaceFirstSlash(_)
ReplaceFirstSlash(str) ==
    IF str = <<>> THEN <<>>
    ELSE IF Head(str) = "/" THEN <<"-">> \o Tail(str)
    ELSE <<Head(str)>> \o ReplaceFirstSlash(Tail(str))

\* .split('/').join('-')
ReplaceSlashes(str) == JoinWith(SplitOn(str, "/", <<>>, <<>>), <<"-">>)

\* quickFilterValues?.join('_')?.split('/')?.join('-')
FilterArgument(values) ==
    IF ~values.defined THEN UndefinedString
    ELSE String(ReplaceSlashes(JoinWith(values.tokens, <<"_">>)))

\* fetchEmployees: `/filters/${filters || 'noFilter'}` (undefined and the
\* empty string are falsy)
FetchEmployeesFilters(filters) ==
    IF ~filters.defined \/ filters.chars = <<>> THEN NoFilter
    ELSE filters.chars

\* the queryFn of useEmployees calls fetchEmployees
UseEmployeesQueryFn(values) ==
    /\ queryFnOf = "none"
    /\ queryFnOf' = "useEmployees"
    /\ quickFilterValues' = values
    /\ filterSegment' = FetchEmployeesFilters(FilterArgument(values))
    /\ UNCHANGED <<pagingVars, now, q, orphans, obs, serverVersion, mut, last>>

\* the queryFn of a prefetch of usePrefetchEmployees calls fetchEmployees
PrefetchQueryFn(values) ==
    /\ queryFnOf = "none"
    /\ queryFnOf' = "usePrefetchEmployees"
    /\ quickFilterValues' = values
    /\ filterSegment' = FetchEmployeesFilters(FilterArgument(values))
    /\ UNCHANGED <<pagingVars, now, q, orphans, obs, serverVersion, mut, last>>

InitUrl ==
    /\ queryFnOf = "none"
    /\ quickFilterValues = UndefinedValues
    /\ filterSegment = <<>>

(***************************************************************************)
(* The query cache: what useQuery, prefetchQuery and invalidateQueries of  *)
(* the QueryClient do for the hooks.  A key ['employees', pageOnServer,    *)
(* queryOptions] is written as its server page, the query options being    *)
(* the same throughout.                                                    *)
(***************************************************************************)
Keys == 0..MaxKey
Hooks == 1..NumHooks
Mutations == 1..MaxMutations
NoKey == -1
NoVer == -1

\* staleTime of the useQuery options and of the prefetchQuery options
StaleTimeUseEmployees == 5000
StaleTimePrefetch == 5000

\* No call site passes "retry": the defaults of the application's
\* QueryClient decide how often a failed call is sent again.
QueryRetry == 0
MutationRetry == 0

InitialQuery ==
    [exists |-> FALSE, hasData |-> FALSE, dataVer |-> 0, dataUpdatedAt |-> 0,
     isInvalidated |-> FALSE,
     fetching |-> FALSE, fetchVer |-> 0, fetchFailureCount |-> 0]

InitialCache ==
    [q |-> [k \in Keys |-> InitialQuery], orphans |-> [k \in Keys |-> 0]]

Cache == [q |-> q, orphans |-> orphans]

NoObserver == [key |-> NoKey, enabled |-> FALSE]

InitialMutation ==
    [state |-> "idle", ver |-> 0, posts |-> 0,
     failureCount |-> 0, onSuccessCalls |-> 0, onErrorCalls |-> 0]

\* Query.isStaleByTime without the age
IsStaleNeverByAge(s, staleTime) ==
    \/ s.isInvalidated
    \/ ~s.hasData

\* Query.isStaleByTime: invalidated, or without data, or older than staleTime
IsStaleByTime(s, staleTime) ==
    \/ s.isInvalidated
    \/ ~s.hasData
    \/ now >= s.dataUpdatedAt + staleTime

\* a query is active when an enabled observer is subscribed to it
IsActive(k) == \E h \in Hooks : obs[h].key = k /\ obs[h].enabled

\* GETs in flight for a key: the one its query awaits and the superseded ones
InFlight(c, k) == (IF c.q[k].fetching THEN 1 ELSE 0) + c.orphans[k]

\* GETs a step has sent, per key (for steps in which no GET returns)
Issued(pre, post) == [k \in Keys |-> InFlight(post, k) - InFlight(pre, k)]

\* Query.fetch without the sharing of a fetch in flight: every call sends
QueryFetchNoSharing(c, k, cancelRefetch) ==
    LET s == c.q[k]
    IN  [q |-> [c.q EXCEPT ![k] =
                  [s EXCEPT !.exists = TRUE, !.fetching = TRUE,
                            !.fetchVer = serverVersion,
                            !.fetchFailureCount = 0]],
         orphans |-> IF s.fetching
                     THEN [c.orphans EXCEPT ![k] = @ + 1]
                     ELSE c.orphans]

\* Query.fetch: a fetch in flight is joined, unless the query has data and
\* the caller asks to cancel it; fetchEmployees never hands the abort signal
\* to axios, so the cancelled GET stays in flight and its answer is dropped.
QueryFetch(c, k, cancelRefetch) ==
    LET s == c.q[k]
    IN  IF s.fetching /\ ~(s.hasData /\ cancelRefetch)
        THEN c
        ELSE [q |-> [c.q EXCEPT ![k] =
                       [s EXCEPT !.exists = TRUE,
                                 !.fetching = TRUE,
                                 !.fetchVer = serverVersion,
                                 !.fetchFailureCount = 0]],
              orphans |-> IF s.fetching
                          THEN [c.orphans EXCEPT ![k] = @ + 1]
                          ELSE c.orphans]

BuildQuery(c, k) == [c EXCEPT !.q[k].exists = TRUE]

\* useQuery(key, fn, {keepPreviousData, staleTime: 5000, enabled}) when the
\* hook subscribes to the key: it fetches if enabled and the query is stale
ObserveQuery(c, k, enabled) ==
    IF enabled /\ IsStaleByTime(c.q[k], StaleTimeUseEmployees)
    THEN QueryFetch(BuildQuery(c, k), k, FALSE)
    ELSE BuildQuery(c, k)

\* prefetchQuery(key, fn, {staleTime: 5000}): fetches if the query is stale
FetchQuery(c, k) ==
    IF IsStaleByTime(c.q[k], StaleTimePrefetch)
    THEN QueryFetch(BuildQuery(c, k), k, FALSE)
    ELSE BuildQuery(c, k)

\* the version of the data prefetchQuery resolves with from the cache, or
\* NoVer when it goes to the network
FetchQueryResult(c, k) ==
    IF IsStaleByTime(c.q[k], StaleTimePrefetch) THEN NoVer ELSE c.q[k].dataVer

\* pagesToPrefetch.forEach(page => queryClient.prefetchQuery(...))
RECURSIVE PrefetchQueries(_, _)
PrefetchQueries(c, ks) ==
    IF ks = <<>> THEN c
    ELSE PrefetchQueries(FetchQuery(c, Head(ks)), Tail(ks))

\* invalidateQueries refetches the active queries, cancelling their fetch
RECURSIVE RefetchQueries(_, _)
RefetchQueries(c, k) ==
    IF k > MaxKey THEN c
    ELSE RefetchQueries(IF c.q[k].exists /\ IsActive(k)
                        THEN QueryFetch(c, k, TRUE) ELSE c,
                        k + 1)

\* invalidateQueries(['employees']): every query of the cache has a key
\* that starts with 'employees'
InvalidateQueries(c) ==
    RefetchQueries(
        [c EXCEPT !.q = [k \in Keys |->
                           IF c.q[k].exists
                           THEN [c.q[k] EXCEPT !.isInvalidated = TRUE]
                           ELSE c.q[k]]],
        0)

WithinBounds(c) == \A k \in Keys : c.orphans[k] <= MaxOrphans

NoGets == [k \in Keys |-> 0]

\* the record of an operation: which keys it asked for, the cache it found,
\* the GETs and POST/PUT/DELETEs it sent, and for a mutation's success what
\* the caller's callback fetched and was given
Op(name) ==
    [op |-> name, keys |-> <<>>, enabled |-> FALSE, given |-> FALSE,
     pre |-> InitialCache,
     gets |-> NoGets, posts |-> 0, mutation |-> 0,
     cbKey |-> NoKey, cbVer |-> NoVer]

(***************************************************************************)
(* useEmployees and usePrefetchEmployees on the cache                      *)
(***************************************************************************)
\* a component renders useEmployees with a new key or a new "enabled"
UseEmployeesRequest(h, k, enabled) ==
    /\ obs[h] # [key |-> k, enabled |-> enabled]
    /\ LET post == ObserveQuery(Cache, k, enabled)
       IN  /\ q' = post.q
           /\ orphans' = post.orphans
           /\ last' = [Op("useEmployees") EXCEPT
                          !.keys = <<k>>, !.enabled = enabled,
                          !.pre = Cache,
                          !.gets = Issued(Cache, post)]
    /\ obs' = [obs EXCEPT ![h] = [key |-> k, enabled |-> enabled]]
    /\ UNCHANGED <<now, serverVersion, mut>>
    /\ UNCHANGED <<pagingVars, urlVars>>

\* the component unmounts; a fetch in flight goes on
UseEmployeesUnmount(h) ==
    /\ obs[h] # NoObserver
    /\ obs' = [obs EXCEPT ![h] = NoObserver]
    /\ last' = Op("unmount")
    /\ UNCHANGED <<now, q, orphans, serverVersion, mut>>
    /\ UNCHANGED <<pagingVars, urlVars>>

\* the effect of usePrefetchEmployees: one prefetchQuery per page of
\* pagesToPrefetch, several of which may lie on the same server page
PrefetchEffect(ks) ==
    /\ LET post == PrefetchQueries(Cache, ks)
       IN  /\ q' = post.q
           /\ orphans' = post.orphans
           /\ last' = [Op("prefetch") EXCEPT
                          !.keys = ks, !.enabled = TRUE,
                          !.pre = Cache,
                          !.gets = Issued(Cache, post)]
    /\ UNCHANGED <<now, obs, serverVersion, mut>>
    /\ UNCHANGED <<pagingVars, urlVars>>

(***************************************************************************)
(* The network and the clock                                               *)
(***************************************************************************)
\* the GET a query awaits returns the page as the server had it at some
\* moment between the sending and now
GetSucceeds(k) ==
    /\ q[k].fetching
    /\ \E v \in q[k].fetchVer..serverVersion :
          q' = [q EXCEPT ![k] =
                  [@ EXCEPT !.hasData = TRUE, !.dataVer = v,
                            !.dataUpdatedAt = now,
                            !.isInvalidated = FALSE,
                            !.fetching = FALSE, !.fetchVer = 0,
                            !.fetchFailureCount = 0]]
    /\ last' = [Op("getSucceeded") EXCEPT !.keys = <<k>>]
    /\ UNCHANGED <<now, orphans, obs, serverVersion, mut>>
    /\ UNCHANGED <<pagingVars, urlVars>>

\* the GET a query awaits fails and is sent again, whatever the retries left
GetFailsAndRetries(k) ==
    /\ q[k].fetching
    /\ q' = [q EXCEPT ![k].fetchFailureCount = 1,
                      ![k].fetchVer = serverVersion]
    /\ last' = [Op("getFailed") EXCEPT
                   !.keys = <<k>>, !.gets = [NoGets EXCEPT ![k] = 1]]
    /\ UNCHANGED <<now, orphans, obs, serverVersion, mut>>
    /\ UNCHANGED <<pagingVars, urlVars>>

\* the GET a query awaits fails: sent again while retries are left, else
\* the fetch ends and the query keeps the data it had
GetFails(k) ==
    /\ q[k].fetching
    /\ IF q[k].fetchFailureCount < QueryRetry
       THEN /\ q' = [q EXCEPT ![k].fetchFailureCount = @ + 1,
                              ![k].fetchVer = serverVersion]
            /\ last' = [Op("getFailed") EXCEPT
                           !.keys = <<k>>, !.gets = [NoGets EXCEPT ![k] = 1]]
       ELSE /\ q' = [q EXCEPT ![k].fetching = FALSE,
                              ![k].fetchVer = 0,
                              ![k].fetchFailureCount = 0]
            /\ last' = [Op("getFailed") EXCEPT !.keys = <<k>>]
    /\ UNCHANGED <<now, orphans, obs, serverVersion, mut>>
    /\ UNCHANGED <<pagingVars, urlVars>>

\* a superseded GET returns or fails: nobody awaits it
OrphanReturns(k) ==
    /\ orphans[k] > 0
    /\ orphans' = [orphans EXCEPT ![k] = @ - 1]
    /\ last' = [Op("orphanReturned") EXCEPT !.keys = <<k>>]
    /\ UNCHANGED <<now, q, obs, serverVersion, mut>>
    /\ UNCHANGED <<pagingVars, urlVars>>

Tick ==
    /\ now + TickMs <= MaxTime
    /\ now' = now + TickMs
    /\ last' = Op("tick")
    /\ UNCHANGED <<q, orphans, obs, serverVersion, mut>>
    /\ UNCHANGED <<pagingVars, urlVars>>

(***************************************************************************)
(* useCreateEmployee, useDeleteEmployee, useUpdateEmployee                 *)
(***************************************************************************)
MutationKinds == {"create", "delete", "update"}

\* what the caller's onSuccess does: the hook was given none, or one that
\* only reports (the forms dispatch SHOW_RESULT), or one that also asks the
\* query client for a page of employees
NoCallback == [given |-> FALSE, key |-> NoKey]
Callbacks ==
    {NoCallback, [given |-> TRUE, key |-> NoKey]}
        \cup {[given |-> TRUE, key |-> k] : k \in Keys}

\* mutate(...): mutationFn sends the POST, DELETE or PUT
Mutate(m, kind) ==
    /\ mut[m].state = "idle"
    /\ \A j \in Mutations : j < m => mut[j].state # "idle"
    /\ mut' = [mut EXCEPT ![m] =
                 [@ EXCEPT !.state = "pending", !.posts = 1]]
    /\ last' = [Op(kind) EXCEPT !.mutation = m, !.posts = 1]
    /\ UNCHANGED <<now, q, orphans, obs, serverVersion>>
    /\ UNCHANGED <<pagingVars, urlVars>>

\* the server applies the mutation
ServerApplies(m) ==
    /\ mut[m].state = "pending"
    /\ serverVersion' = serverVersion + 1
    /\ mut' = [mut EXCEPT ![m].state = "applied", ![m].ver = serverVersion + 1]
    /\ last' = [Op("serverApplied") EXCEPT !.mutation = m]
    /\ UNCHANGED <<now, q, orphans, obs>>
    /\ UNCHANGED <<pagingVars, urlVars>>

\* onSuccess: if (onSuccess) onSuccess(...); queryClient.invalidateQueries(['employees'])
OnSuccess(c, cb) ==
    InvalidateQueries(IF cb.given /\ cb.key # NoKey
                      THEN FetchQuery(c, cb.key)
                      ELSE c)

\* the answer of the applied mutation arrives
MutationSucceeds(m, cb) ==
    /\ mut[m].state = "applied"
    /\ LET post == OnSuccess(Cache, cb)
       IN  /\ WithinBounds(post)
           /\ q' = post.q
           /\ orphans' = post.orphans
           /\ last' = [Op("mutationSucceeded") EXCEPT
                          !.mutation = m, !.given = cb.given,
                          !.pre = Cache,
                          !.gets = Issued(Cache, post),
                          !.cbKey = cb.key,
                          !.cbVer = IF cb.given /\ cb.key # NoKey
                                    THEN FetchQueryResult(Cache, cb.key)
                                    ELSE NoVer]
    /\ mut' = [mut EXCEPT ![m].state = "success",
                          ![m].onSuccessCalls = IF cb.given THEN 1 ELSE 0]
    /\ UNCHANGED <<now, obs, serverVersion>>
    /\ UNCHANGED <<pagingVars, urlVars>>

\* onError: if (onError) onError(err), and the cache with invalidation added
OnErrorInvalidating(c, given) == InvalidateQueries(c)

\* onError: if (onError) onError(err); the forms' handlers report the error
OnError(c, given) == c

\* the REST call of a mutation fails: sent again while retries are left,
\* else onError runs
MutationFails(m, given) ==
    /\ mut[m].state = "pending"
    /\ IF mut[m].failureCount < MutationRetry
       THEN /\ mut' = [mut EXCEPT ![m].failureCount = @ + 1,
                                  ![m].posts = @ + 1]
            /\ last' = [Op("mutationFailed") EXCEPT
                           !.mutation = m, !.posts = 1,
                           !.pre = Cache]
            /\ UNCHANGED <<q, orphans>>
       ELSE LET post == OnError(Cache, given)
            IN  /\ WithinBounds(post)
                /\ q' = post.q
                /\ orphans' = post.orphans
                /\ mut' = [mut EXCEPT ![m].state = "error",
                                      ![m].onErrorCalls = IF given THEN 1 ELSE 0]
                /\ last' = [Op("mutationFailed") EXCEPT
                               !.mutation = m, !.given = given,
                               !.pre = Cache]
    /\ UNCHANGED <<now, obs, serverVersion>>
    /\ UNCHANGED <<pagingVars, urlVars>>

(***************************************************************************)
(* Spec                                                                    *)
(***************************************************************************)
cacheVars == <<now, q, orphans, obs, serverVersion, mut, last>>

vars == <<serverPageSize, totalEmployees, hook, pageOnClient,
          pageSizeOnClient, pageOnServer, dataPaginated, pagesToPrefetch,
          queryFnOf, quickFilterValues, filterSegment,
          now, q, orphans, obs, serverVersion, mut, last>>

InitCache ==
    /\ now = 0
    /\ q = [k \in Keys |-> InitialQuery]
    /\ orphans = [k \in Keys |-> 0]
    /\ obs = [h \in Hooks |-> NoObserver]
    /\ serverVersion = 0
    /\ mut = [m \in Mutations |-> InitialMutation]
    /\ last = Op("none")

\* the sequences of at most MaxPrefetch server pages a prefetch walks through
RECURSIVE KeySeqs(_)
KeySeqs(n) ==
    IF n = 0 THEN {<<>>}
    ELSE KeySeqs(n - 1)
           \cup {Append(ks, k) : ks \in {x \in KeySeqs(n - 1) : Len(x) = n - 1},
                                 k \in Keys}

Init ==
    /\ InitCache
    /\ serverPageSize = MaxServerPageSize
    /\ totalEmployees = MaxTotalEmployees
    /\ hook = "none"
    /\ pageOnClient = 0
    /\ pageSizeOnClient = 10
    /\ pageOnServer = 0
    /\ dataPaginated = Undefined
    /\ pagesToPrefetch = <<>>
    /\ InitUrl

Next ==
    \/ \E h \in Hooks, k \in Keys, enabled \in BOOLEAN :
          UseEmployeesRequest(h, k, enabled)
    \/ \E h \in Hooks : UseEmployeesUnmount(h)
    \/ \E ks \in KeySeqs(MaxPrefetch) \ {<<>>} : PrefetchEffect(ks)
    \/ \E k \in Keys : GetSucceeds(k)
    \/ \E k \in Keys : GetFails(k)
    \/ \E k \in Keys : OrphanReturns(k)
    \/ Tick
    \/ \E m \in Mutations, kind \in MutationKinds : Mutate(m, kind)
    \/ \E m \in Mutations : ServerApplies(m)
    \/ \E m \in Mutations, cb \in Callbacks : MutationSucceeds(m, cb)
    \/ \E m \in Mutations, given \in BOOLEAN : MutationFails(m, given)

Spec == Init /\ [][Next]_vars

(***************************************************************************)
(* SpecPaging                                                              *)
(***************************************************************************)
InitPaging ==
    /\ serverPageSize \in 1..MaxServerPageSize
    /\ totalEmployees \in 0..MaxTotalEmployees
    /\ hook = "none"
    /\ pageOnClient = 0
    /\ pageSizeOnClient = 10
    /\ pageOnServer = 0
    /\ dataPaginated = Undefined
    /\ pagesToPrefetch = <<>>
    /\ InitUrl
    /\ InitCache

\* a component renders one of the hooks with its page, page size and, for
\* useEmployees, with the server page fetched or still loading
RenderUseEmployees ==
    /\ hook = "none"
    /\ \E page \in 0..MaxPage, pageSize \in PageSizes, fetched \in BOOLEAN :
          UseEmployees(page, pageSize, fetched)

RenderUsePrefetchEmployees ==
    /\ hook = "none"
    /\ \E currentPage \in 0..MaxPage, pageSize \in PageSizes :
          UsePrefetchEmployees(currentPage, pageSize)

NextPaging ==
    /\ RenderUseEmployees \/ RenderUsePrefetchEmployees
    /\ UNCHANGED cacheVars
    /\ UNCHANGED urlVars

SpecPaging == InitPaging /\ [][NextPaging]_vars

(***************************************************************************)
(* SpecUrl                                                                 *)
(***************************************************************************)
RunUseEmployeesQueryFn ==
    /\ queryFnOf = "none"
    /\ \E values \in QuickFilterValues : UseEmployeesQueryFn(values)

RunPrefetchQueryFn ==
    /\ queryFnOf = "none"
    /\ \E values \in QuickFilterValues : PrefetchQueryFn(values)

NextUrl == RunUseEmployeesQueryFn \/ RunPrefetchQueryFn

SpecUrl == Init /\ [][NextUrl]_vars

(***************************************************************************)
(* Claims about the pagination arithmetic (SpecPaging)                     *)
(***************************************************************************)
\* what a single-tier pagination of the full list shows at a client page:
\* records page*pageSize .. (page+1)*pageSize - 1, cut where the list ends
NaiveWindow(total, page, pageSize) ==
    SubSeq(FullList(total), page * pageSize + 1,
           Min((page + 1) * pageSize, total))

UseEmployeesFetched == hook = "useEmployees" /\ dataPaginated.defined

\* C1: when the client page size is at most SERVER_PAGE_SIZE and divides it,
\* useEmployees asks for server page floor(page*pageSize/S) and returns
\* exactly the records page*pageSize .. (page+1)*pageSize-1 of the full list,
\* cut only where the list ends.
C1_DivisorSliceIsClientWindow ==
    ( /\ UseEmployeesFetched
      /\ pageSizeOnClient <= serverPageSize
      /\ serverPageSize % pageSizeOnClient = 0 )
    => /\ pageOnServer * serverPageSize <= pageOnClient * pageSizeOnClient
       /\ pageOnClient * pageSizeOnClient < (pageOnServer + 1) * serverPageSize
       /\ dataPaginated.employees =
            NaiveWindow(totalEmployees, pageOnClient, pageSizeOnClient)

\* the second client page of ten in a server page of twenty: the end offset
\* falls on the server page boundary
C1_Witness ==
    /\ UseEmployeesFetched
    /\ serverPageSize = 20 /\ pageSizeOnClient = 10 /\ pageOnClient = 1
    /\ totalEmployees = 30
    /\ dataPaginated.employees = <<11, 12, 13, 14, 15, 16, 17, 18, 19, 20>>

\* what useEmployees returns at a client page once its server page is there
ReturnedAt(S, total, page, pageSize) ==
    EmployeesSlice(Data(ServerPage(PageOnServer(page, pageSize, S), S, total)),
                   page, pageSize, S).employees

RECURSIVE ConcatSlices(_, _, _, _)
ConcatSlices(S, total, pageSize, lastPage) ==
    IF lastPage < 0 THEN <<>>
    ELSE ConcatSlices(S, total, pageSize, lastPage - 1)
            \o ReturnedAt(S, total, lastPage, pageSize)

\* the last client page: the least N with (N+1)*pageSize >= total
LastClientPage(total, pageSize) ==
    IF total = 0 THEN -1
    ELSE CHOOSE n \in 0..total :
            /\ (n + 1) * pageSize >= total
            /\ n * pageSize < total

\* C2: with SERVER_PAGE_SIZE = 25 and a client page size of 10, the slices
\* of client pages 0..N concatenated are the full list (no gap, no duplicate).
C2_RoundTrip25By10 ==
    ( /\ UseEmployeesFetched
      /\ serverPageSize = 25 /\ pageSizeOnClient = 10 )
    => ConcatSlices(25, totalEmployees, 10, LastClientPage(totalEmployees, 10))
          = FullList(totalEmployees)

\* C3: for every page size the grid offers (10, 25, 50, 100), whatever
\* SERVER_PAGE_SIZE is, the slice useEmployees returns is the client page of
\* a single-tier pagination of the full list.
C3_GridSizeSliceIsClientWindow ==
    (UseEmployeesFetched /\ pageSizeOnClient \in GridPageSizes)
    => dataPaginated.employees =
          NaiveWindow(totalEmployees, pageOnClient, pageSizeOnClient)

\* C10: near the start (currentPage <= 3) the pages to prefetch are the pages
\* 0..4 other than currentPage and not beyond lastPage, plus lastPage when
\* lastPage > 4; for lastPage = 10 and currentPage = 1 that is {0,2,3,4,10}.
C10_NearStartPrefetchSet ==
    (hook = "usePrefetchEmployees" /\ pageOnClient <= 3)
    => LET lastPage == LastClientPage(totalEmployees, pageSizeOnClient)
       IN  /\ Range(pagesToPrefetch) =
                {i \in 0..4 : i # pageOnClient /\ i <= lastPage}
                  \cup (IF lastPage > 4 THEN {lastPage} ELSE {})
           /\ (lastPage = 10 /\ pageOnClient = 1)
                 => Range(pagesToPrefetch) = {0, 2, 3, 4, 10}

C10_Witness ==
    /\ hook = "usePrefetchEmployees"
    /\ pageOnClient = 1
    /\ LastClientPage(totalEmployees, pageSizeOnClient) = 10
    /\ pagesToPrefetch = <<0, 2, 3, 4, 10>>

UsePrefetchEmployeesRan == hook = "usePrefetchEmployees"

\* C11 (as stated): whenever currentPage >= lastPage - 3 the pages to
\* prefetch are the pages lastPage-4..lastPage other than currentPage and not
\* negative, plus page 0 when lastPage - 4 > 0.
C11_NearEndPrefetchSetAlways ==
    LET lastPage == LastClientPage(totalEmployees, pageSizeOnClient)
    IN  (UsePrefetchEmployeesRan /\ pageOnClient >= lastPage - 3)
        => Range(pagesToPrefetch) =
              {i \in (lastPage - 4)..lastPage : i # pageOnClient /\ i >= 0}
                \cup (IF lastPage - 4 > 0 THEN {0} ELSE {})

\* C11 (amended): the same whenever currentPage >= lastPage - 3 and
\* currentPage > 3.  The near-start rule goes first: for currentPage <= 3 it
\* gives the same set, except for currentPage = 3 with lastPage = 6, where
\* the pages are {0,1,2,4,6}.
C11_NearEndPrefetchSet ==
    LET lastPage == LastClientPage(totalEmployees, pageSizeOnClient)
        nearEnd == {i \in (lastPage - 4)..lastPage : i # pageOnClient /\ i >= 0}
                     \cup (IF lastPage - 4 > 0 THEN {0} ELSE {})
    IN  (UsePrefetchEmployeesRan /\ pageOnClient >= lastPage - 3)
        => /\ pageOnClient > 3 => Range(pagesToPrefetch) = nearEnd
           /\ (pageOnClient <= 3 /\ ~(pageOnClient = 3 /\ lastPage = 6))
                 => Range(pagesToPrefetch) = nearEnd
           /\ (pageOnClient = 3 /\ lastPage = 6)
                 => Range(pagesToPrefetch) = {0, 1, 2, 4, 6}

\* the last but two of nine pages
C11_Witness ==
    /\ UsePrefetchEmployeesRan
    /\ pageOnClient = 6
    /\ LastClientPage(totalEmployees, pageSizeOnClient) = 8
    /\ pagesToPrefetch = <<8, 7, 5, 4, 0>>

\* C12: in the middle (3 < currentPage < lastPage - 3) the pages to prefetch
\* are exactly currentPage-1, currentPage+1, 0 and lastPage; for lastPage = 10
\* and currentPage = 5 that is {4,6,0,10}.
C12_MiddlePrefetchSet ==
    LET lastPage == LastClientPage(totalEmployees, pageSizeOnClient)
    IN  ( /\ UsePrefetchEmployeesRan
          /\ pageOnClient > 3 /\ pageOnClient < lastPage - 3 )
        => /\ Range(pagesToPrefetch) =
                 {pageOnClient - 1, pageOnClient + 1, 0, lastPage}
           /\ (lastPage = 10 /\ pageOnClient = 5)
                 => Range(pagesToPrefetch) = {4, 6, 0, 10}

C12_Witness ==
    /\ UsePrefetchEmployeesRan
    /\ pageOnClient = 5
    /\ LastClientPage(totalEmployees, pageSizeOnClient) = 10
    /\ pagesToPrefetch = <<4, 6, 0, 10>>

\* C13: the server page p useEmployees asks for holds the first row of the
\* client window, p*S <= page*pageSize < (p+1)*S, the start offset is
\* page*pageSize - p*S, and the first employee returned, if any, is that row.
C13_ServerPageHoldsWindowStart ==
    hook = "useEmployees" =>
       LET first == pageOnClient * pageSizeOnClient
       IN  /\ pageOnServer * serverPageSize <= first
           /\ first < (pageOnServer + 1) * serverPageSize
           /\ SliceStart(pageOnClient, pageSizeOnClient, serverPageSize)
                 = first - pageOnServer * serverPageSize
           /\ (dataPaginated.defined /\ dataPaginated.employees # <<>>)
                 => Head(dataPaginated.employees) = first + 1

\* pages of 5 over server pages of 7: client page 3 starts at row 15, the
\* second row of server page 2
C13_Witness ==
    /\ UseEmployeesFetched
    /\ serverPageSize = 7 /\ pageSizeOnClient = 5 /\ pageOnClient = 3
    /\ pageOnServer = 2
    /\ totalEmployees = 30
    /\ dataPaginated.employees = <<16, 17, 18, 19, 20>>

\* C14: when ((page+1)*pageSize) mod SERVER_PAGE_SIZE is 0 the end offset is
\* SERVER_PAGE_SIZE: the slice [start, end) is not empty and what is returned
\* is the server page from offset start on, with at least one employee when
\* the server page has one there.
C14_ZeroEndIsServerPageSize ==
    ( /\ hook = "useEmployees"
      /\ ((pageOnClient + 1) * pageSizeOnClient) % serverPageSize = 0 )
    => LET start == SliceStart(pageOnClient, pageSizeOnClient, serverPageSize)
           end == SliceEnd(pageOnClient, pageSizeOnClient, serverPageSize)
           page == ServerPage(pageOnServer, serverPageSize, totalEmployees)
       IN  /\ end = serverPageSize
           /\ start < end
           /\ dataPaginated.defined =>
                 /\ dataPaginated.employees =
                       SubSeq(page, Min(start, Len(page)) + 1, Len(page))
                 /\ Len(page) > start => dataPaginated.employees # <<>>

\* pages of 4 over server pages of 12: client page 2 ends on the boundary
C14_Witness ==
    /\ UseEmployeesFetched
    /\ serverPageSize = 12 /\ pageSizeOnClient = 4 /\ pageOnClient = 2
    /\ totalEmployees = 30
    /\ dataPaginated.employees = <<9, 10, 11, 12>>

\* C16: whatever currentPage, pageSize and totalEmployees are (an empty list
\* and a currentPage beyond the last page included), the pages to prefetch
\* never hold currentPage, nor an index below 0 or above lastPage, nor the
\* same index twice.
C16_PrefetchPagesAreValid ==
    UsePrefetchEmployeesRan =>
       LET lastPage == LastClientPage(totalEmployees, pageSizeOnClient)
       IN  /\ pageOnClient \notin Range(pagesToPrefetch)
           /\ \A i \in Range(pagesToPrefetch) : 0 <= i /\ i <= lastPage
           /\ Cardinality(Range(pagesToPrefetch)) = Len(pagesToPrefetch)

\* currentPage 6 of a list whose last page is 3
C16_Witness ==
    /\ UsePrefetchEmployeesRan
    /\ pageOnClient = 6
    /\ LastClientPage(totalEmployees, pageSizeOnClient) = 3
    /\ pagesToPrefetch = <<3, 2, 1, 0>>

(***************************************************************************)
(* Claims about the GET URL (SpecUrl)                                      *)
(***************************************************************************)
EscapedChar(c) == IF c = "/" THEN "-" ELSE c

\* C15: the filters segment both hooks ask for is the quick-filter values
\* joined by '_' with every '/' turned into '-', so it holds no '/'; without
\* values (undefined, or an empty list) it is 'noFilter'.
C15_FilterSegmentEncoding ==
    queryFnOf # "none" =>
       /\ "/" \notin Range(filterSegment)
       /\ IF ~quickFilterValues.defined \/ quickFilterValues.tokens = <<>>
          THEN filterSegment = NoFilter
          ELSE LET joined == JoinWith(quickFilterValues.tokens, <<"_">>)
               IN  filterSegment =
                      [n \in 1..Len(joined) |-> EscapedChar(joined[n])]

\* a prefetch with the values "a/" and "/a" asks for "a-_-a"
C15_Witness ==
    /\ queryFnOf = "usePrefetchEmployees"
    /\ quickFilterValues = Values(<< <<"a", "/">>, <<"/", "a">> >>)
    /\ filterSegment = <<"a", "-", "_", "-", "a">>

(***************************************************************************)
(* Claims about the query cache (Spec)                                     *)
(***************************************************************************)
\* the last operation asked the cache for key k: an enabled useEmployees
\* subscribed to it, or a prefetch effect walked over it
Requested(k) ==
    \/ last.op = "useEmployees" /\ last.enabled /\ last.keys = <<k>>
    \/ last.op = "prefetch" /\ k \in Range(last.keys)

\* the age of the data the last operation found for key k
AgeFound(k) == now - last.pre.q[k].dataUpdatedAt

\* C4 (as stated): at any time at most one GET is in flight per cache key.
C4_AtMostOneGetInFlight == \A k \in Keys : InFlight(Cache, k) <= 1

\* C4 (amended): requests never duplicate a fetch.  A useEmployees request
\* or a prefetch for a key whose fetch is in flight sends no GET, leaves that
\* fetch as it is (the query still awaits the same call: not cancelled), and
\* the requests of one operation send at most one GET per key.  A second GET
\* for a key is in flight only after the invalidation of a successful
\* mutation has superseded a fetch.
C4_RequestsShareTheFetchInFlight ==
    /\ \A k \in Keys :
          Requested(k) =>
             /\ last.gets[k] <= 1
             /\ last.pre.q[k].fetching =>
                   /\ last.gets[k] = 0
                   /\ q[k].fetching
                   /\ q[k].fetchVer = last.pre.q[k].fetchVer
                   /\ orphans[k] = last.pre.orphans[k]
    /\ \A k \in Keys :
          InFlight(Cache, k) > 1 => \E m \in Mutations : mut[m].state = "success"

\* a real request while a fetch of the key is in flight and nobody observes it
C4_Witness ==
    \E k \in Keys :
       /\ last.op = "useEmployees" /\ last.enabled /\ last.keys = <<k>>
       /\ last.pre.q[k].fetching
       /\ last.gets[k] = 0
       /\ q[k].fetching
       /\ InFlight(Cache, k) = 1

\* C5 (as stated): a request or prefetch that finds data younger than 5 s is
\* served from the cache and sends no GET; one that finds data older than
\* 5 s is served by the network.
C5_ValidForFiveSeconds ==
    \A k \in Keys :
       (Requested(k) /\ last.pre.q[k].hasData) =>
          /\ AgeFound(k) < 5000 => (last.gets[k] = 0 /\ ~q[k].fetching)
          /\ AgeFound(k) > 5000 => q[k].fetching

\* C5 (amended): the same for data no successful mutation has invalidated;
\* the GET for data older than 5 s is a new one unless one was in flight.
C5_ValidForFiveSecondsUnlessInvalidated ==
    \A k \in Keys :
       (Requested(k) /\ last.pre.q[k].hasData) =>
          /\ (AgeFound(k) < 5000 /\ ~last.pre.q[k].isInvalidated) =>
                /\ last.gets[k] = 0
                /\ ~q[k].fetching
                /\ q[k] = [last.pre.q[k] EXCEPT !.exists = TRUE]
          /\ AgeFound(k) > 5000 =>
                /\ q[k].fetching
                /\ last.gets[k] = IF last.pre.q[k].fetching THEN 0 ELSE 1

\* data fetched 2 s ago is served again, and data fetched 6 s ago is not
C5_Witness ==
    \E k, j \in Keys :
       /\ last.op = "prefetch" /\ last.keys = <<k, j>>
       /\ last.pre.q[k].hasData /\ ~last.pre.q[k].isInvalidated
       /\ AgeFound(k) = 2000 /\ last.gets[k] = 0
       /\ last.pre.q[j].hasData /\ ~last.pre.q[j].isInvalidated
       /\ AgeFound(j) = 6000 /\ last.gets[j] = 1

\* C6: once a mutation has succeeded every cached entry is invalidated, and
\* no later request or prefetch is served from the cache with data older
\* than the mutation, be it within 5 s of the data's arrival.
C6_FreshAfterMutation ==
    /\ last.op = "mutationSucceeded" =>
          \A k \in Keys : q[k].exists => q[k].isInvalidated
    /\ \A k \in Keys, m \in Mutations :
          ( /\ Requested(k) /\ last.gets[k] = 0 /\ ~q[k].fetching
            /\ mut[m].state = "success" )
          => q[k].dataVer >= mut[m].ver

\* C7: a fetch the caller's onSuccess starts is not served from a cache
\* entry that predates the mutation.
C7_CallbackFetchIsFresh ==
    (last.op = "mutationSucceeded" /\ last.cbKey # NoKey /\ last.cbVer # NoVer)
    => last.cbVer >= mut[last.mutation].ver

\* C8: when the REST call of a mutation fails, onSuccess has not run and the
\* cache is as it was (nothing invalidated, nothing fetched); once the
\* failure is reported, onError has run exactly once if the caller gave one.
C8_FailureCallsOnErrorOnly ==
    last.op = "mutationFailed" =>
       /\ mut[last.mutation].state = "error" =>
             mut[last.mutation].onErrorCalls = (IF last.given THEN 1 ELSE 0)
       /\ mut[last.mutation].state \in {"pending", "error"}
       /\ mut[last.mutation].onSuccessCalls = 0
       /\ Cache = last.pre
       /\ \A k \in Keys : q[k].isInvalidated = last.pre.q[k].isInvalidated

\* a mutation fails, its onError runs, and the cache holds a page that is
\* still valid
C8_Witness ==
    /\ last.op = "mutationFailed" /\ last.given
    /\ mut[last.mutation].state = "error"
    /\ mut[last.mutation].onErrorCalls = 1
    /\ \E k \in Keys :
          q[k].hasData /\ ~q[k].isInvalidated /\ now - q[k].dataUpdatedAt < 5000

====
